---- MODULE Spec2Model ----
(***************************************************************************)
(* Identity reconciliation and onboarding of domo-ph: the handle-signup    *)
(* edge function (src/signup-user-edge-function.ts) and the                *)
(* handle_new_user trigger (src/unnamed/part_000) over the shared store    *)
(* (users, staff_invite, households, household_members, auth.users).       *)
(*                                                                         *)
(* Every store round trip of the edge function and every SQL statement of  *)
(* the trigger is one atomic step; requests interleave between steps.      *)
(***************************************************************************)
EXTENDS Naturals, Integers, Sequences, FiniteSets, TLC

NULL == "null"

(* ---------------------------------------------------------------- *)
(* Universe of the model                                            *)
(* ---------------------------------------------------------------- *)
Procs == {"p1", "p2"}
AuthIds == {"a0", "a1", "a2"}
AuthOrder == <<"a1", "a2">>
PendIds == {"P1"}
GenOrder == <<"g1", "g2">>
GenIds == {"g1", "g2"}
UIDs == AuthIds \cup PendIds \cup GenIds
InvIds == {"i1", "i2"}
OldHouseholds == {"H1", "H2"}
NewOrder == <<"N1", "N2">>
NewHouseholds == {"N1", "N2"}
HIds == OldHouseholds \cup NewHouseholds
Codes == {"X", "Y", "Z"}

(* created_at order of the staff_invite rows *)
InvRank(i) == IF i = "i1" THEN 1 ELSE 2

VARIABLES
    users,      \* public.users: id -> row
    invites,    \* public.staff_invite: id -> row
    households, \* public.households: id -> row
    members,    \* public.household_members: <<household, user>> -> number of rows
    auth,       \* auth.users: id -> row
    fkOwner,    \* the users.id that the rows of the other tables (tasks, requests) reference
    proc,       \* per request slot: program counter and locals of the running request
    queue,      \* per request slot: the requests still to be sent
    hist        \* history: what happened, for stating the claims

vars == <<users, invites, households, members, auth, fkOwner, proc, queue, hist>>

(* ---------------------------------------------------------------- *)
(* Normalizer                                                        *)
(* ---------------------------------------------------------------- *)
(* Contact values are atoms; "r1" and "r5" are the domestic spellings
   (0917...) of the numbers whose country-coded spellings are "m1" and "m5",
   "E1" is "e1" with capitals. *)
normalizeEmail(v) == IF v = NULL THEN NULL ELSE IF v = "E1" THEN "e1" ELSE v

normalizePhone(v) ==
    IF v = NULL THEN NULL ELSE IF v = "r1" THEN "m1" ELSE IF v = "r5" THEN "m5" ELSE v

(* `${digits}@domo.ph`, the auth e-mail of a signup without e-mail *)
DomoEmail(m) == m \o "@domo.ph"

authEmailOf(nEmail, nMobile) ==
    IF nEmail # NULL THEN nEmail
    ELSE IF nMobile # NULL THEN DomoEmail(nMobile) ELSE "noreply@domo"

(* 'temp-' || id || '@temp-migration.domo.ph' *)
TempEmail(id) == "temp-P1"

Coalesce(a, b) == IF a # NULL THEN a ELSE b

(* ---------------------------------------------------------------- *)
(* Rows                                                              *)
(* ---------------------------------------------------------------- *)
UserRow(authid, email, mobile, role, household, pending) ==
    [live |-> TRUE, authid |-> authid, email |-> email, mobile |-> mobile,
     role |-> role, household |-> household, pending |-> pending, full_name |-> NULL]

NoUser == [live |-> FALSE, authid |-> NULL, email |-> NULL, mobile |-> NULL,
           role |-> NULL, household |-> NULL, pending |-> FALSE, full_name |-> NULL]

NoInvite == [live |-> FALSE, email |-> NULL, mobile |-> NULL, household |-> NULL,
             status |-> "new", user_id |-> NULL]

NoHousehold == [live |-> FALSE, owner |-> NULL, join_code |-> NULL]

NoAuth == [live |-> FALSE, email |-> NULL, phone |-> NULL, role |-> NULL, name |-> NULL,
           committed |-> FALSE]

(* A store that enforces the e-mail key alone *)
UniqueViolationEmailOnly(us, id, email, mobile) ==
    \E j \in UIDs \ {id} : us[j].live /\ email # NULL /\ us[j].email = email

(* The users table refuses a row whose e-mail or mobile another row holds. *)
UniqueViolation(us, id, email, mobile) ==
    \E j \in UIDs \ {id} :
        /\ us[j].live
        /\ \/ (email # NULL /\ us[j].email = email)
           \/ (mobile # NULL /\ us[j].mobile = mobile)

(* .eq('authid', a).maybeSingle(): the row, or nothing when none or several match *)
RowsByAuthid(us, a) == {j \in UIDs : us[j].live /\ us[j].authid = a}

SingleByAuthid(us, a) ==
    IF Cardinality(RowsByAuthid(us, a)) = 1
    THEN CHOOSE j \in RowsByAuthid(us, a) : TRUE
    ELSE NULL

FirstFree(order, taken) ==
    LET free == {k \in 1..Len(order) : order[k] \notin taken}
    IN IF free = {} THEN NULL
       ELSE order[CHOOSE k \in free : \A l \in free : k <= l]

Newest(S) == CHOOSE i \in S : \A j \in S : InvRank(j) <= InvRank(i)

MemberRows(h, u) == members[<<h, u>>]

(* An existence check that never finds the row *)
MemberExistsNever(h, u) == FALSE

(* The existence check in front of every household_members insert *)
MemberExists(h, u) == MemberRows(h, u) > 0

(* select('id').eq(...).eq(...).maybeSingle(): a row only when exactly one matches *)
MemberSingle(h, u) == MemberRows(h, u) = 1

AddMember(mem, h, u) == [mem EXCEPT ![<<h, u>>] = @ + 1]

(* ---------------------------------------------------------------- *)
(* Request slots                                                     *)
(* ---------------------------------------------------------------- *)
Idle ==
    [pc |-> "idle", kind |-> NULL, email |-> NULL, mobile |-> NULL, token |-> NULL,
     aid |-> NULL, ret |-> NULL,
     inv |-> NULL, invStatus |-> NULL, invUser |-> NULL, userRole |-> NULL,
     existing |-> NULL, rowId |-> NULL, pendId |-> NULL, newId |-> NULL,
     exEmail |-> NULL, exMobile |-> NULL, exName |-> NULL, name |-> NULL,
     tPendName |-> NULL,
     memExists |-> FALSE, todo |-> {}, cur |-> NULL,
     tInv |-> NULL, tInvStatus |-> NULL, tInvFound |-> FALSE, tRole |-> NULL,
     tPend |-> NULL, tPendFound |-> FALSE, tPendHH |-> NULL,
     tMobBak |-> NULL, tEmailBak |-> NULL,
     tCode |-> NULL, tTries |-> 0, tHH |-> NULL, tUserOk |-> FALSE, tUserHH |-> NULL,
     tMemExists |-> FALSE,
     runs |-> 0,
     again |-> FALSE,
     arg |-> NULL, once |-> NULL, twice |-> NULL,
     resp |-> NULL]

Request(kind, email, mobile, token, aid) ==
    [kind |-> kind, email |-> email, mobile |-> mobile, token |-> token, aid |-> aid,
     name |-> IF kind = "password" THEN "Rn" ELSE IF kind = "idp" THEN "Gn" ELSE NULL,
     creds |-> TRUE]

(* The same request sent without password or without full_name *)
Bare(r) == [r EXCEPT !.creds = FALSE]

Set(p, f) == proc' = [proc EXCEPT ![p] = f]

At(p, pc) == proc[p].pc = pc

Log(field, e) == [hist EXCEPT ![field] = @ \cup {e}]

(* ================================================================ *)
(* handle_new_user: the trigger on auth.users                        *)
(* ================================================================ *)

(* migrate_pending_user_to_authenticated(old, new): re-points every foreign
   key from the old users.id to the new one and reports success; nothing to
   move is a no-op. *)
migratePendingUserToAuthenticated(owner, old, new) ==
    IF owner = old THEN new ELSE owner

(* ... the household memberships among them: a row of the old id is re-pointed
   to the new id unless the new id has a row in that household already *)
migratePendingUserMemberships(mem, old, new) ==
    IF old = new THEN mem
    ELSE [x \in DOMAIN mem |->
            IF x[2] = old THEN 0
            ELSE IF x[2] = new /\ mem[x] = 0 THEN mem[<<x[1], old>>]
            ELSE mem[x]]

(* staff_invite rows with status 'new' for a normalized phone / e-mail *)
TrgInvitesByPhone(ph, statuses) ==
    {i \in InvIds : invites[i].live /\ invites[i].mobile # NULL
                    /\ normalizePhone(invites[i].mobile) = ph
                    /\ invites[i].status \in statuses}

TrgInvitesByEmail(em) ==
    {i \in InvIds : invites[i].live /\ invites[i].email # NULL
                    /\ normalizeEmail(invites[i].email) = em
                    /\ invites[i].status = "new"}

(* Role determination: staff_invite by phone, else by e-mail, then the
   "prefer mobile" re-lookup that also accepts status 'done'. *)
TrgInviteLookup(p) ==
    /\ At(p, "t_invite")
    /\ LET a == proc[p].aid
           ph == normalizePhone(auth[a].phone)
           em == normalizeEmail(auth[a].email)
           byPhone == IF ph = NULL THEN {} ELSE TrgInvitesByPhone(ph, {"new"})
           byEmail == IF byPhone = {} /\ em # NULL THEN TrgInvitesByEmail(em) ELSE {}
           again == IF byEmail # {} /\ ph # NULL
                    THEN TrgInvitesByPhone(ph, {"new", "done"}) ELSE {}
           found == byPhone # {} \/ byEmail # {}
           rec == IF byPhone # {} THEN Newest(byPhone)
                  ELSE IF byEmail = {} THEN NULL
                  ELSE IF again # {} THEN Newest(again)
                  ELSE Newest(byEmail)
       IN Set(p, [proc[p] EXCEPT
                    !.pc = "t_pending",
                    !.tInv = rec,
                    !.tInvStatus = IF rec = NULL THEN NULL ELSE invites[rec].status,
                    !.tInvFound = found,
                    !.tRole = IF found THEN "kasambahay"
                              ELSE Coalesce(auth[a].role, "amo")])
    /\ UNCHANGED <<users, invites, households, members, auth, fkOwner, queue, hist>>

TrgPendingByEmail(em) ==
    {j \in UIDs : users[j].live /\ users[j].pending /\ users[j].authid = NULL
                  /\ users[j].email # NULL /\ normalizeEmail(users[j].email) = em}

TrgPendingByPhone(ph) ==
    {j \in UIDs : users[j].live /\ users[j].pending /\ users[j].authid = NULL
                  /\ users[j].mobile # NULL /\ normalizePhone(users[j].mobile) = ph}

(* PHASE 3.1: pending user by e-mail, else by phone; LIMIT 1 without ORDER BY *)
TrgPendingLookup(p) ==
    /\ At(p, "t_pending")
    /\ LET a == proc[p].aid
           ph == normalizePhone(auth[a].phone)
           em == normalizeEmail(auth[a].email)
           byEmail == IF em = NULL THEN {} ELSE TrgPendingByEmail(em)
           byPhone == IF byEmail = {} /\ ph # NULL THEN TrgPendingByPhone(ph) ELSE {}
           cands == IF byEmail # {} THEN byEmail ELSE byPhone
       IN IF cands = {}
          THEN Set(p, [proc[p] EXCEPT !.pc = "t_insert", !.tPendFound = FALSE])
          ELSE \E j \in cands :
                 Set(p, [proc[p] EXCEPT
                           !.pc = "t_clear",
                           !.tPend = j,
                           !.tPendFound = TRUE,
                           !.tPendHH = users[j].household,
                           !.tMobBak = users[j].mobile,
                           !.tEmailBak = users[j].email,
                           !.tPendName = users[j].full_name])
    /\ UNCHANGED <<users, invites, households, members, auth, fkOwner, queue, hist>>

(* PHASE 3.2, conflict resolution: clear the pending row's mobile_no and
   replace its e-mail by a placeholder when it equals NEW.email. *)
TrgClearPending(p) ==
    /\ At(p, "t_clear")
    /\ LET a == proc[p].aid
           j == proc[p].tPend
           r == users[j]
           r1 == IF r.live /\ r.pending /\ r.authid = NULL
                 THEN [r EXCEPT !.mobile = NULL] ELSE r
           sameEmail == /\ auth[a].email # NULL
                        /\ proc[p].tEmailBak # NULL
                        /\ normalizeEmail(proc[p].tEmailBak) = normalizeEmail(auth[a].email)
           r2 == IF r1.live /\ sameEmail THEN [r1 EXCEPT !.email = TempEmail(j)] ELSE r1
       IN users' = [users EXCEPT ![j] = r2]
    /\ Set(p, [proc[p] EXCEPT !.pc = "t_merge_insert"])
    /\ UNCHANGED <<invites, households, members, auth, fkOwner, queue, hist>>

(* A merge that keeps the signup's own phone only *)
TrgMergedMobileOwn(p) == normalizePhone(auth[proc[p].aid].phone)

(* The mobile the merged canonical row gets: COALESCE(user_phone,
   normalize_phone_number(pending_mobile_backup)) *)
TrgMergedMobile(p) ==
    Coalesce(normalizePhone(auth[proc[p].aid].phone), normalizePhone(proc[p].tMobBak))

(* A handler that restores nothing *)
TrgRestoreNothing(us, p) == us

(* EXCEPTION WHEN OTHERS of the migration block: restore the backups and
   continue with the normal creation flow. *)
TrgRestorePending(us, p) ==
    LET j == proc[p].tPend
        r == us[j]
        r1 == IF r.live /\ proc[p].tMobBak # NULL
              THEN [r EXCEPT !.mobile = proc[p].tMobBak] ELSE r
        r2 == IF r1.live /\ proc[p].tEmailBak # NULL
              THEN [r1 EXCEPT !.email = proc[p].tEmailBak] ELSE r1
    IN [us EXCEPT ![j] = r2]

(* display_name := COALESCE(pending_user_record.full_name, the names of the
   metadata, NEW.email); the normal creation has no pending name *)
TrgDisplayName(pendName, a) ==
    Coalesce(pendName, Coalesce(auth[a].name, auth[a].email))

(* INSERT the authenticated row with the pending row's household
   ... ON CONFLICT (id) DO UPDATE *)
TrgMergeInsert(p) ==
    /\ At(p, "t_merge_insert")
    /\ LET a == proc[p].aid
           email == Coalesce(auth[a].email, proc[p].tEmailBak)
           mobile == TrgMergedMobile(p)
           row == IF users[a].live
                  THEN [users[a] EXCEPT !.email = Coalesce(email, @),
                                        !.mobile = Coalesce(mobile, @),
                                        !.authid = a,
                                        !.pending = FALSE]
                  ELSE [UserRow(a, email, mobile, proc[p].tRole, proc[p].tPendHH, FALSE)
                          EXCEPT !.full_name = TrgDisplayName(proc[p].tPendName, a)]
       IN IF UniqueViolation(users, a, row.email, row.mobile)
          THEN /\ users' = TrgRestorePending(users, p)
               /\ Set(p, [proc[p] EXCEPT !.pc = "t_insert", !.tPendFound = FALSE])
          ELSE /\ users' = [users EXCEPT ![a] = row]
               /\ Set(p, [proc[p] EXCEPT !.pc = "t_migrate"])
    /\ UNCHANGED <<invites, households, members, auth, fkOwner, queue, hist>>

(* SELECT migrate_pending_user_to_authenticated(pending.id, NEW.id) *)
TrgMigrate(p) ==
    /\ At(p, "t_migrate")
    /\ fkOwner' = migratePendingUserToAuthenticated(fkOwner, proc[p].tPend, proc[p].aid)
    /\ members' = migratePendingUserMemberships(members, proc[p].tPend, proc[p].aid)
    /\ hist' = Log("migrated", <<proc[p].aid, proc[p].tPend>>)
    /\ Set(p, [proc[p] EXCEPT !.pc = "t_delete"])
    /\ UNCHANGED <<users, invites, households, auth, queue>>

(* The rows a guarded DELETE of the pending user removes *)
TrgDeleteGuard(r) == r.live /\ r.pending /\ r.authid = NULL

(* DELETE FROM users WHERE id = pending.id AND is_pending_signup AND authid IS NULL *)
TrgDeletePending(p) ==
    /\ At(p, "t_delete")
    /\ LET j == proc[p].tPend
       IN IF TrgDeleteGuard(users[j])
          THEN /\ users' = [users EXCEPT ![j] = NoUser]
               /\ hist' = Log("deleted", <<proc[p].aid, j>>)
          ELSE UNCHANGED <<users, hist>>
    /\ Set(p, [proc[p] EXCEPT !.pc = "t_merge_update"])
    /\ UNCHANGED <<invites, households, members, auth, fkOwner, queue>>

(* UPDATE users SET email, mobile_no, role ... WHERE id = NEW.id; the merge
   is complete and pending_user_found stays TRUE. *)
TrgMergeUpdate(p) ==
    /\ At(p, "t_merge_update")
    /\ LET a == proc[p].aid
           r == users[a]
           row == [r EXCEPT !.email = Coalesce(auth[a].email, @),
                            !.mobile = TrgMergedMobile(p),
                            !.role = Coalesce(proc[p].tRole, @)]
       IN IF r.live /\ ~UniqueViolation(users, a, row.email, row.mobile)
          THEN users' = [users EXCEPT ![a] = row]
          ELSE UNCHANGED users
    /\ hist' = Log("merged", <<proc[p].aid, proc[p].tPend>>)
    /\ Set(p, [proc[p] EXCEPT !.pc = "t_select_user"])
    /\ UNCHANGED <<invites, households, members, auth, fkOwner, queue>>

(* Normal creation: INSERT ... ON CONFLICT (id) DO UPDATE.  A unique
   violation reaches the function's outer EXCEPTION handler: RETURN NEW
   without a profile. *)
TrgInsert(p) ==
    /\ At(p, "t_insert")
    /\ LET a == proc[p].aid
           email == auth[a].email
           mobile == normalizePhone(auth[a].phone)
           row == IF users[a].live
                  THEN [users[a] EXCEPT !.mobile = Coalesce(mobile, @),
                                        !.email = Coalesce(email, @),
                                        !.role = Coalesce(proc[p].tRole, @),
                                        !.pending = FALSE]
                  ELSE [UserRow(a, email, mobile, proc[p].tRole, NULL, FALSE)
                          EXCEPT !.full_name = TrgDisplayName(NULL, a)]
       IN IF UniqueViolation(users, a, row.email, row.mobile)
          THEN /\ UNCHANGED users
               /\ Set(p, [proc[p] EXCEPT !.pc = "t_return"])
          ELSE /\ users' = [users EXCEPT ![a] = row]
               /\ Set(p, [proc[p] EXCEPT !.pc = "t_select_user"])
    /\ UNCHANGED <<invites, households, members, auth, fkOwner, queue, hist>>

(* AUTOMATIC HOUSEHOLD CREATION: only for an 'amo' user without household
   and without staff invite. *)
(* A guard that looks at nothing but the row being there *)
TrgCreatesHouseholdAlways(r, found) == r.live

(* user_record.id IS NOT NULL, role = 'amo', household IS NULL, no staff invite *)
TrgCreatesHousehold(r, found) ==
    r.live /\ r.role = "amo" /\ r.household = NULL /\ ~found

TrgSelectUser(p) ==
    /\ At(p, "t_select_user")
    /\ LET r == users[proc[p].aid]
           create == TrgCreatesHousehold(r, proc[p].tInvFound)
       IN Set(p, [proc[p] EXCEPT !.pc = IF create THEN "t_gen_code" ELSE "t_invite_select"])
    /\ UNCHANGED <<users, invites, households, members, auth, fkOwner, queue, hist>>

CodeTaken(c) == \E h \in HIds : households[h].live /\ households[h].join_code = c

(* How many colliding draws of one generation the model follows *)
MaxCodeTries == 11

(* LOOP new_join_code := random; EXIT WHEN NOT EXISTS (...); END LOOP: one
   draw per step, the loop taken again on a collision; tTries counts the
   collisions of this generation *)
TrgGenCode(p) ==
    /\ At(p, "t_gen_code")
    /\ \E c \in Codes :
         IF CodeTaken(c)
         THEN /\ proc[p].tTries < MaxCodeTries
              /\ Set(p, [proc[p] EXCEPT !.tTries = @ + 1])
         ELSE Set(p, [proc[p] EXCEPT !.pc = "t_hh_insert", !.tCode = c, !.tTries = 0])
    /\ UNCHANGED <<users, invites, households, members, auth, fkOwner, queue, hist>>

(* INSERT INTO households (name, owner_id, join_code) RETURNING id *)
TrgInsertHousehold(p) ==
    /\ At(p, "t_hh_insert")
    /\ LET h == FirstFree(NewOrder, {x \in HIds : households[x].live})
       IN /\ h # NULL
          /\ households' = [households EXCEPT
                              ![h] = [live |-> TRUE, owner |-> proc[p].aid,
                                      join_code |-> proc[p].tCode]]
          /\ Set(p, [proc[p] EXCEPT !.pc = "t_hh_user", !.tHH = h])
    /\ UNCHANGED <<users, invites, members, auth, fkOwner, queue, hist>>

(* UPDATE users SET household = new_household_id WHERE id = user_record.id *)
TrgSetHousehold(p) ==
    /\ At(p, "t_hh_user")
    /\ LET a == proc[p].aid
       IN users' = IF users[a].live
                   THEN [users EXCEPT ![a].household = proc[p].tHH] ELSE users
    /\ Set(p, [proc[p] EXCEPT !.pc = "t_hh_member_check"])
    /\ UNCHANGED <<invites, households, members, auth, fkOwner, queue, hist>>

(* IF NOT EXISTS (SELECT 1 FROM household_members ...) *)
TrgMemberCheck(p) ==
    /\ At(p, "t_hh_member_check")
    /\ Set(p, [proc[p] EXCEPT
                 !.pc = IF MemberExists(proc[p].tHH, proc[p].aid)
                        THEN "t_invite_select" ELSE "t_hh_member_insert"])
    /\ UNCHANGED <<users, invites, households, members, auth, fkOwner, queue, hist>>

(* INSERT INTO household_members (household_id, user_id) *)
TrgMemberInsert(p) ==
    /\ At(p, "t_hh_member_insert")
    /\ members' = AddMember(members, proc[p].tHH, proc[p].aid)
    /\ Set(p, [proc[p] EXCEPT !.pc = "t_invite_select"])
    /\ UNCHANGED <<users, invites, households, auth, fkOwner, queue, hist>>

(* STAFF INVITE UPDATE: refresh user_record *)
TrgInviteSelect(p) ==
    /\ At(p, "t_invite_select")
    /\ LET r == users[proc[p].aid]
       IN IF proc[p].tInvFound /\ proc[p].tInv # NULL /\ r.live
          THEN Set(p, [proc[p] EXCEPT !.pc = "t_invite_update",
                                      !.tUserOk = TRUE, !.tUserHH = r.household])
          ELSE Set(p, [proc[p] EXCEPT !.pc = "t_return"])
    /\ UNCHANGED <<users, invites, households, members, auth, fkOwner, queue, hist>>

(* status = CASE WHEN status = 'new' THEN 'done' ELSE status END *)
TrgInviteStatus(s) == IF s = "new" THEN "done" ELSE s

(* UPDATE staff_invite SET status = ..., user_id = COALESCE(user_id, user_record.id) *)
TrgInviteUpdate(p) ==
    /\ At(p, "t_invite_update")
    /\ LET i == proc[p].tInv
       IN invites' = [invites EXCEPT
                        ![i].status = TrgInviteStatus(@),
                        ![i].user_id = Coalesce(@, proc[p].aid)]
    /\ hist' = IF invites[proc[p].tInv].status = "done"
               THEN Log("remarked", <<proc[p].tInv, p>>) ELSE hist
    /\ Set(p, [proc[p] EXCEPT !.pc = "t_invite_hh"])
    /\ UNCHANGED <<users, households, members, auth, fkOwner, queue>>

(* Update user's household if not already set *)
TrgInviteHousehold(p) ==
    /\ At(p, "t_invite_hh")
    /\ LET a == proc[p].aid
           h == invites[proc[p].tInv].household
       IN IF h = NULL
          THEN /\ Set(p, [proc[p] EXCEPT !.pc = "t_return"])
               /\ UNCHANGED <<users, hist>>
          ELSE /\ users' = IF proc[p].tUserHH = NULL /\ users[a].live
                           THEN [users EXCEPT ![a].household = h] ELSE users
               /\ hist' = IF proc[p].tUserHH = NULL /\ users[a].live
                          THEN Log("bound", <<proc[p].tInv, a, "contact">>) ELSE hist
               /\ Set(p, [proc[p] EXCEPT !.pc = "t_invite_member_check"])
    /\ UNCHANGED <<invites, households, members, auth, fkOwner, queue>>

(* Ensure household_members entry exists: the existence check *)
TrgInviteMemberCheck(p) ==
    /\ At(p, "t_invite_member_check")
    /\ Set(p, [proc[p] EXCEPT
                 !.pc = IF MemberExists(invites[proc[p].tInv].household, proc[p].aid)
                        THEN "t_return" ELSE "t_invite_member_insert"])
    /\ hist' = Log("ensured", <<p, invites[proc[p].tInv].household, proc[p].aid, "trigger">>)
    /\ UNCHANGED <<users, invites, households, members, auth, fkOwner, queue>>

(* ... and the insert *)
TrgInviteMemberInsert(p) ==
    /\ At(p, "t_invite_member_insert")
    /\ members' = AddMember(members, invites[proc[p].tInv].household, proc[p].aid)
    /\ Set(p, [proc[p] EXCEPT !.pc = "t_return"])
    /\ UNCHANGED <<users, invites, households, auth, fkOwner, queue, hist>>

(* RETURN NEW: the auth.users insert commits and the caller continues *)
TrgReturn(p) ==
    /\ At(p, "t_return")
    /\ auth' = [auth EXCEPT ![proc[p].aid].committed = TRUE]
    /\ Set(p, [proc[p] EXCEPT !.pc = proc[p].ret])
    /\ UNCHANGED <<users, invites, households, members, fkOwner, queue, hist>>

Trigger(p) ==
    \/ TrgInviteLookup(p)
    \/ TrgPendingLookup(p)
    \/ TrgClearPending(p)
    \/ TrgMergeInsert(p)
    \/ TrgMigrate(p)
    \/ TrgDeletePending(p)
    \/ TrgMergeUpdate(p)
    \/ TrgInsert(p)
    \/ TrgSelectUser(p)
    \/ TrgGenCode(p)
    \/ TrgInsertHousehold(p)
    \/ TrgSetHousehold(p)
    \/ TrgMemberCheck(p)
    \/ TrgMemberInsert(p)
    \/ TrgInviteSelect(p)
    \/ TrgInviteUpdate(p)
    \/ TrgInviteHousehold(p)
    \/ TrgInviteMemberCheck(p)
    \/ TrgInviteMemberInsert(p)
    \/ TrgReturn(p)

(* ================================================================ *)
(* handle-signup: the edge function                                  *)
(* ================================================================ *)

(* An identity the auth service already holds, as getUser(jwt) resolves it *)
AuthKnown(a) == a # NULL /\ auth[a].live /\ auth[a].committed

Finish(p, code) ==
    /\ Set(p, [Idle EXCEPT !.pc = "done", !.kind = proc[p].kind, !.aid = proc[p].aid,
                           !.email = proc[p].email, !.mobile = proc[p].mobile,
                           !.name = proc[p].name,
                           !.token = proc[p].token, !.inv = proc[p].inv,
                           !.userRole = proc[p].userRole, !.resp = code])

(* Where the request goes once the invitation lookup is over *)
AfterLookup(p) == IF proc[p].kind = "oauth" THEN "o_get_user" ELSE "e_create_user"

AfterToken(p, found) ==
    IF found THEN AfterLookup(p)
    ELSE IF normalizePhone(proc[p].mobile) # NULL THEN "e_fb_mobile"
    ELSE IF normalizeEmail(proc[p].email) # NULL THEN "e_fb_email"
    ELSE AfterLookup(p)

(* History: request r repeats the request the slot has just answered with
   success *)
Repeats(p, r) ==
    /\ proc[p].pc = "done"
    /\ proc[p].resp \in {"200", "201", "201-warning"}
    /\ r.kind = proc[p].kind
    /\ r.email = proc[p].email /\ r.mobile = proc[p].mobile /\ r.name = proc[p].name
    /\ r.token = proc[p].token
    /\ r.kind = "oauth" => r.aid = proc[p].aid

(* link_existing_user && inviteToken && (normalizedEmail || normalizedMobile) *)
IsLinkRequest(r) ==
    /\ r.kind = "link"
    /\ r.token # NULL
    /\ (normalizeEmail(r.email) # NULL \/ normalizePhone(r.mobile) # NULL)

(* A validation that lets every request through *)
MissingFieldsNever(r) == FALSE

(* if (!isOAuthFlow): password and full_name, and one of mobile_no / email *)
MissingFields(r) ==
    /\ r.kind \in {"password", "link"}
    /\ \/ ~r.creds
       \/ (normalizePhone(r.mobile) = NULL /\ normalizeEmail(r.email) = NULL)

(* The request is read, its inputs normalized and the flow chosen; a request
   outside the OAuth and the link flow is validated before anything else *)
Start(p) ==
    /\ proc[p].pc \in {"idle", "done"}
    /\ queue[p] # <<>>
    /\ LET r == Head(queue[p])
       IN (r.kind = "oauth" /\ r.aid # NULL) => AuthKnown(r.aid)
    /\ LET r == Head(queue[p])
           k == IF r.kind = "link" /\ ~IsLinkRequest(r) THEN "password" ELSE r.kind
           f == [Idle EXCEPT !.kind = k, !.email = r.email, !.mobile = r.mobile,
                             !.name = r.name, !.token = r.token, !.aid = r.aid, !.userRole = "amo",
                             !.again = Repeats(p, r)]
       IN IF r.kind = "idp" THEN Set(p, [f EXCEPT !.pc = "idp_create"])
          ELSE IF IsLinkRequest(r) THEN Set(p, [f EXCEPT !.pc = "l_consume"])
          ELSE IF MissingFields(r)
          THEN Set(p, [Idle EXCEPT !.pc = "done", !.kind = k, !.token = r.token,
                                   !.userRole = "amo", !.resp = "400"])
          ELSE Set(p, [f EXCEPT !.pc =
                    IF r.token # NULL THEN "e_validate"
                    ELSE IF normalizePhone(r.mobile) # NULL THEN "e_fb_mobile"
                    ELSE IF normalizeEmail(r.email) # NULL THEN "e_fb_email"
                    ELSE "o_get_user"])
    /\ queue' = [queue EXCEPT ![p] = Tail(@)]
    /\ UNCHANGED <<users, invites, households, members, auth, fkOwner, hist>>

(* validate_invite_token(token): read-only; the grant when it exists and is
   still 'new' *)
validateInviteToken(t) == t \in InvIds /\ invites[t].live /\ invites[t].status = "new"

ValidateConsumes(inv, t) ==
    IF t \in InvIds /\ inv[t].live /\ inv[t].status = "new"
    THEN [inv EXCEPT ![t].status = "done"] ELSE inv

(* ... "Validating invite token (no consume)": the ledger after the call *)
ValidateLeaves(inv, t) == inv

(* Priority 1: the invite token *)
EdgeValidateToken(p) ==
    /\ At(p, "e_validate")
    /\ LET t == proc[p].token
       IN IF validateInviteToken(t)
          THEN Set(p, [proc[p] EXCEPT !.pc = AfterToken(p, TRUE),
                                      !.inv = t,
                                      !.invStatus = invites[t].status,
                                      !.invUser = invites[t].user_id,
                                      !.userRole = "kasambahay"])
          ELSE Set(p, [proc[p] EXCEPT !.pc = AfterToken(p, FALSE)])
    /\ invites' = ValidateLeaves(invites, proc[p].token)
    /\ UNCHANGED <<users, households, members, auth, fkOwner, queue, hist>>

(* .or(mobile.eq.<normalized>,mobile.eq.<raw>).eq('status','new').maybeSingle() *)
EdgeInvitesByMobile(p) ==
    {i \in InvIds : invites[i].live /\ invites[i].status = "new"
                    /\ invites[i].mobile \in {normalizePhone(proc[p].mobile), proc[p].mobile}}

EdgeInvitesByEmail(p) ==
    {i \in InvIds : invites[i].live /\ invites[i].status = "new"
                    /\ invites[i].email \in {normalizeEmail(proc[p].email), proc[p].email}}

MaybeSingle(S) == IF Cardinality(S) = 1 THEN CHOOSE i \in S : TRUE ELSE NULL

(* Priority 2: fallback by mobile *)
EdgeFallbackMobile(p) ==
    /\ At(p, "e_fb_mobile")
    /\ LET i == MaybeSingle(EdgeInvitesByMobile(p))
       IN IF i # NULL
          THEN Set(p, [proc[p] EXCEPT !.pc = AfterLookup(p),
                                      !.inv = i,
                                      !.invStatus = invites[i].status,
                                      !.invUser = invites[i].user_id,
                                      !.userRole = "kasambahay"])
          ELSE Set(p, [proc[p] EXCEPT !.pc =
                         IF normalizeEmail(proc[p].email) # NULL
                         THEN "e_fb_email" ELSE AfterLookup(p)])
    /\ UNCHANGED <<users, invites, households, members, auth, fkOwner, queue, hist>>

(* ... then by e-mail *)
EdgeFallbackEmail(p) ==
    /\ At(p, "e_fb_email")
    /\ LET i == MaybeSingle(EdgeInvitesByEmail(p))
       IN IF i # NULL
          THEN Set(p, [proc[p] EXCEPT !.pc = AfterLookup(p),
                                      !.inv = i,
                                      !.invStatus = invites[i].status,
                                      !.invUser = invites[i].user_id,
                                      !.userRole = "kasambahay"])
          ELSE Set(p, [proc[p] EXCEPT !.pc = AfterLookup(p)])
    /\ UNCHANGED <<users, invites, households, members, auth, fkOwner, queue, hist>>

(* auth.admin.createUser: refused when the auth e-mail is registered;
   otherwise the identity is inserted and handle_new_user runs. *)
EdgeCreateUser(p) ==
    /\ At(p, "e_create_user")
    /\ LET nE == normalizeEmail(proc[p].email)
           nM == normalizePhone(proc[p].mobile)
           ae == authEmailOf(nE, nM)
           a == FirstFree(AuthOrder, {x \in AuthIds : auth[x].live})
       IN IF \E x \in AuthIds : auth[x].live /\ auth[x].email = ae
          THEN /\ Finish(p, "409")
               /\ UNCHANGED auth
          ELSE /\ a # NULL
               /\ auth' = [auth EXCEPT ![a] = [live |-> TRUE, email |-> ae, phone |-> nM,
                                               role |-> proc[p].userRole,
                                               name |-> proc[p].name,
                                               committed |-> FALSE]]
               /\ Set(p, [proc[p] EXCEPT !.pc = "t_invite", !.aid = a,
                                         !.ret = "e_fetch_existing"])
    /\ UNCHANGED <<users, invites, households, members, fkOwner, queue, hist>>

(* A sign-in at the identity provider (OAuth, phone): auth.users gets the
   identity and handle_new_user runs; no edge function is involved. *)
IdpCreate(p) ==
    /\ At(p, "idp_create")
    /\ LET a == FirstFree(AuthOrder, {x \in AuthIds : auth[x].live})
       IN /\ a # NULL
          /\ ~\E x \in AuthIds : auth[x].live /\ auth[x].email = proc[p].email
          /\ auth' = [auth EXCEPT ![a] = [live |-> TRUE, email |-> proc[p].email,
                                          phone |-> proc[p].mobile, role |-> NULL,
                                          name |-> proc[p].name,
                                          committed |-> FALSE]]
          /\ Set(p, [proc[p] EXCEPT !.pc = "t_invite", !.aid = a, !.ret = "idp_done"])
    /\ UNCHANGED <<users, invites, households, members, fkOwner, queue, hist>>

IdpDone(p) ==
    /\ At(p, "idp_done")
    /\ Finish(p, "idp")
    /\ UNCHANGED <<users, invites, households, members, auth, fkOwner, queue, hist>>

(* Check if user profile was created by trigger *)
EdgeFetchExisting(p) ==
    /\ At(p, "e_fetch_existing")
    /\ LET j == SingleByAuthid(users, proc[p].aid)
       IN Set(p, [proc[p] EXCEPT !.pc = "e_profile",
                                 !.existing = j,
                                 !.exEmail = IF j = NULL THEN NULL ELSE users[j].email,
                                 !.exName = IF j = NULL THEN NULL ELSE users[j].full_name,
                                 !.exMobile = IF j = NULL THEN NULL ELSE users[j].mobile])
    /\ UNCHANGED <<users, invites, households, members, auth, fkOwner, queue, hist>>

(* users.update(...).eq('authid', a): every row of the identity, refused as
   a whole on a unique violation *)
(* const finalName = full_name || existingUser.full_name *)
FinalName(requested, existing) == Coalesce(requested, existing)

(* oauthFullName = full_name || user_metadata.full_name || oauthEmail || 'User' *)
OAuthFullName(p, oE) ==
    Coalesce(proc[p].name, Coalesce(auth[proc[p].aid].name, Coalesce(oE, "User")))

UpdateByAuthid(us, a, email, mobile, role, name) ==
    LET new == [j \in UIDs |->
                  IF us[j].live /\ us[j].authid = a
                  THEN [us[j] EXCEPT !.email = email, !.mobile = Coalesce(mobile, @),
                                     !.role = role, !.full_name = name]
                  ELSE us[j]]
    IN IF \E j \in RowsByAuthid(us, a) : UniqueViolation(new, j, new[j].email, new[j].mobile)
       THEN us ELSE new

AfterProfile(p) == IF proc[p].inv # NULL THEN "e_inv_refetch" ELSE "e_return"

(* Password flow: create the profile manually when the trigger left none,
   else update it with role, mobile and e-mail *)
EdgeProfile(p) ==
    /\ At(p, "e_profile")
    /\ LET a == proc[p].aid
           nE == normalizeEmail(proc[p].email)
           nM == normalizePhone(proc[p].mobile)
           g == FirstFree(GenOrder, {x \in UIDs : users[x].live})
       IN IF proc[p].existing = NULL
          THEN /\ g # NULL
               /\ IF UniqueViolation(users, g, nE, nM)
                  THEN /\ Finish(p, "201-warning")
                       /\ UNCHANGED users
                  ELSE /\ users' = [users EXCEPT
                                      ![g] = [UserRow(a, nE, nM, proc[p].userRole, NULL,
                                                      FALSE)
                                              EXCEPT !.full_name = proc[p].name]]
                       /\ Set(p, [proc[p] EXCEPT !.pc = AfterProfile(p)])
          ELSE /\ users' = UpdateByAuthid(users, a, Coalesce(nE, proc[p].exEmail), nM,
                                          proc[p].userRole,
                                          FinalName(proc[p].name, proc[p].exName))
               /\ Set(p, [proc[p] EXCEPT !.pc = AfterProfile(p)])
    /\ UNCHANGED <<invites, households, members, auth, fkOwner, queue, hist>>

(* OAuth flow: auth.getUser(jwt); the session must resolve to an identity
   and a contact must be known *)
OAuthGetUser(p) ==
    /\ At(p, "o_get_user")
    /\ LET a == proc[p].aid
       IN IF ~AuthKnown(a)
          THEN Finish(p, "401")
          ELSE IF Coalesce(normalizeEmail(proc[p].email), normalizeEmail(auth[a].email)) = NULL
                  /\ normalizePhone(proc[p].mobile) = NULL
               THEN Finish(p, "400")
               ELSE Set(p, [proc[p] EXCEPT !.pc = "o_fetch_existing"])
    /\ UNCHANGED <<users, invites, households, members, auth, fkOwner, queue, hist>>

(* Upsert user profile row based on authid: the lookup *)
OAuthFetchExisting(p) ==
    /\ At(p, "o_fetch_existing")
    /\ LET j == SingleByAuthid(users, proc[p].aid)
       IN Set(p, [proc[p] EXCEPT !.pc = "o_profile",
                                 !.existing = j,
                                 !.exEmail = IF j = NULL THEN NULL ELSE users[j].email,
                                 !.exName = IF j = NULL THEN NULL ELSE users[j].full_name,
                                 !.exMobile = IF j = NULL THEN NULL ELSE users[j].mobile])
    /\ UNCHANGED <<users, invites, households, members, auth, fkOwner, queue, hist>>

(* ... and the insert of profilePayload, or the update by authid *)
OAuthProfile(p) ==
    /\ At(p, "o_profile")
    /\ LET a == proc[p].aid
           oE == Coalesce(normalizeEmail(proc[p].email), normalizeEmail(auth[a].email))
           pM == Coalesce(Coalesce(normalizePhone(proc[p].mobile), proc[p].mobile),
                          auth[a].phone)
           g == FirstFree(GenOrder, {x \in UIDs : users[x].live})
       IN IF proc[p].existing = NULL
          THEN /\ g # NULL
               /\ IF UniqueViolation(users, g, oE, pM)
                  THEN /\ Finish(p, "400")
                       /\ UNCHANGED users
                  ELSE /\ users' = [users EXCEPT
                                      ![g] = [UserRow(a, oE, pM, proc[p].userRole, NULL,
                                                      FALSE)
                                              EXCEPT !.full_name = OAuthFullName(p, oE)]]
                       /\ Set(p, [proc[p] EXCEPT !.pc = AfterProfile(p)])
          ELSE /\ users' = UpdateByAuthid(users, a, Coalesce(oE, proc[p].exEmail),
                                          Coalesce(pM, proc[p].exMobile), proc[p].userRole,
                                          FinalName(OAuthFullName(p, oE), proc[p].exName))
               /\ Set(p, [proc[p] EXCEPT !.pc = AfterProfile(p)])
    /\ UNCHANGED <<invites, households, members, auth, fkOwner, queue, hist>>

(* ---------------------------------------------------------------- *)
(* Invitation post-processing, shared by the password and OAuth flows *)
(* ---------------------------------------------------------------- *)

(* Resolve pendingUserId: the grant's user_id, re-read when the lookup
   returned none *)
EdgeInviteRefetch(p) ==
    /\ At(p, "e_inv_refetch")
    /\ Set(p, [proc[p] EXCEPT !.pc = "e_user_row",
                              !.pendId = Coalesce(proc[p].invUser,
                                                  invites[proc[p].inv].user_id)])
    /\ UNCHANGED <<users, invites, households, members, auth, fkOwner, queue, hist>>

AfterBinding(p) == IF proc[p].pendId # NULL THEN "e_migrate" ELSE "e_mark_done"

(* 1) Fetch the users row of the identity *)
EdgeUserRow(p) ==
    /\ At(p, "e_user_row")
    /\ LET j == SingleByAuthid(users, proc[p].aid)
           f == [proc[p] EXCEPT !.rowId = j, !.newId = j]
       IN proc' = [proc EXCEPT ![p] =
                     [f EXCEPT !.pc = IF j # NULL THEN "e_update_hh"
                                      ELSE IF f.pendId # NULL /\ f.kind = "password"
                                      THEN "e_refetch" ELSE "e_mark_done"]]
    /\ UNCHANGED <<users, invites, households, members, auth, fkOwner, queue, hist>>

(* How the request found its grant *)
Via(p) == IF proc[p].token # NULL /\ proc[p].inv = proc[p].token THEN "token" ELSE "contact"

(* The values the grant puts on the users row *)
BindGrant(r, h) == [r EXCEPT !.household = h, !.role = "kasambahay"]

(* 2) users.update({household, specific_role, nick_name, role}).eq('id', userRow.id) *)
EdgeUpdateHousehold(p) ==
    /\ At(p, "e_update_hh")
    /\ LET j == proc[p].rowId
           h == invites[proc[p].inv].household
       IN /\ users' = IF users[j].live THEN [users EXCEPT ![j] = BindGrant(@, h)] ELSE users
          /\ hist' = IF users[j].live THEN Log("bound", <<proc[p].inv, j, Via(p)>>) ELSE hist
    /\ Set(p, [proc[p] EXCEPT !.pc = "e_member_check"])
    /\ UNCHANGED <<invites, households, members, auth, fkOwner, queue>>

(* 3) Ensure household_members entry exists: the select *)
EdgeMemberCheck(p) ==
    /\ At(p, "e_member_check")
    /\ LET ex == MemberExists(invites[proc[p].inv].household, proc[p].rowId)
       IN Set(p, [proc[p] EXCEPT
                    !.memExists = ex,
                    !.pc = IF ~ex /\ proc[p].pendId = NULL THEN "e_member_insert"
                           ELSE AfterBinding(p)])
    /\ hist' = IF proc[p].pendId = NULL
               THEN Log("ensured", <<p, invites[proc[p].inv].household, proc[p].rowId, "edge">>)
               ELSE hist
    /\ UNCHANGED <<users, invites, households, members, auth, fkOwner, queue>>

(* ... and the insert, skipped when a pending user is to be reconciled *)
EdgeMemberInsert(p) ==
    /\ At(p, "e_member_insert")
    /\ members' = AddMember(members, invites[proc[p].inv].household, proc[p].rowId)
    /\ Set(p, [proc[p] EXCEPT !.pc = AfterBinding(p)])
    /\ UNCHANGED <<users, invites, households, auth, fkOwner, queue, hist>>

(* Re-fetch the users row when the first fetch found none (password flow) *)
EdgeRefetch(p) ==
    /\ At(p, "e_refetch")
    /\ LET j == SingleByAuthid(users, proc[p].aid)
       IN Set(p, [proc[p] EXCEPT !.newId = j,
                                 !.pc = IF j # NULL THEN "e_migrate" ELSE "e_mark_done"])
    /\ UNCHANGED <<users, invites, households, members, auth, fkOwner, queue, hist>>

(* 4) Token-based reconciliation: rpc('migrate_pending_user_to_authenticated') *)
EdgeMigrate(p) ==
    /\ At(p, "e_migrate")
    /\ fkOwner' = migratePendingUserToAuthenticated(fkOwner, proc[p].pendId, proc[p].newId)
    /\ members' = migratePendingUserMemberships(members, proc[p].pendId, proc[p].newId)
    /\ hist' = Log("migrated", <<proc[p].newId, proc[p].pendId>>)
    /\ Set(p, [proc[p] EXCEPT !.pc = "e_mem_fetch"])
    /\ UNCHANGED <<users, invites, households, auth, queue>>

(* migratePendingUserHouseholdMembers: select household_id where user_id = pending *)
EdgeMembersFetch(p) ==
    /\ At(p, "e_mem_fetch")
    /\ LET rows == {h \in HIds : MemberRows(h, proc[p].pendId) > 0}
       IN Set(p, [proc[p] EXCEPT !.todo = rows,
                                 !.pc = IF rows = {} THEN "e_rec_delete" ELSE "e_mem_check"])
    /\ UNCHANGED <<users, invites, households, members, auth, fkOwner, queue, hist>>

(* for (const row of pendingMembers): is the new user a member already? *)
EdgeMembersCheck(p) ==
    /\ At(p, "e_mem_check")
    /\ \E h \in proc[p].todo :
         /\ Set(p, [proc[p] EXCEPT
                      !.cur = h,
                      !.todo = @ \ {h},
                      !.pc = IF MemberSingle(h, proc[p].newId)
                             THEN (IF proc[p].todo = {h} THEN "e_mem_delete" ELSE "e_mem_check")
                             ELSE "e_mem_insert"])
    /\ UNCHANGED <<users, invites, households, members, auth, fkOwner, queue, hist>>

(* ... insert({household_id, user_id: newUserId}) *)
EdgeMembersInsert(p) ==
    /\ At(p, "e_mem_insert")
    /\ members' = AddMember(members, proc[p].cur, proc[p].newId)
    /\ Set(p, [proc[p] EXCEPT !.pc = IF proc[p].todo = {} THEN "e_mem_delete"
                                     ELSE "e_mem_check"])
    /\ UNCHANGED <<users, invites, households, auth, fkOwner, queue, hist>>

(* household_members.delete().eq('user_id', pendingUserId) *)
EdgeMembersDelete(p) ==
    /\ At(p, "e_mem_delete")
    /\ members' = [x \in DOMAIN members |->
                     IF x[2] = proc[p].pendId THEN 0 ELSE members[x]]
    /\ Set(p, [proc[p] EXCEPT !.pc = "e_rec_delete"])
    /\ UNCHANGED <<users, invites, households, auth, fkOwner, queue, hist>>

AfterReconcile(p) == IF proc[p].kind = "link" THEN "l_return" ELSE "e_mark_done"

(* users.delete().eq('id', pendingUserId) *)
EdgeDeletePlaceholder(p) ==
    /\ At(p, "e_rec_delete")
    /\ LET j == proc[p].pendId
       IN IF users[j].live
          THEN /\ users' = [users EXCEPT ![j] = NoUser]
               /\ hist' = Log("deleted", <<proc[p].newId, j>>)
          ELSE UNCHANGED <<users, hist>>
    /\ Set(p, [proc[p] EXCEPT !.pc = AfterReconcile(p)])
    /\ UNCHANGED <<invites, households, members, auth, fkOwner, queue>>

(* A status update that flips the status *)
MarkDoneToggle(s) == IF s = "done" THEN "new" ELSE "done"

(* The status written when the invitation is marked consumed *)
MarkDone(s) == "done"

(* staff_invite.update({status: 'done'}).eq('id', invite.id), unless the
   status read at lookup time was already 'done' *)
EdgeMarkDone(p) ==
    /\ At(p, "e_mark_done")
    /\ LET i == proc[p].inv
       IN IF proc[p].invStatus # "done"
          THEN /\ invites' = [invites EXCEPT ![i].status = MarkDone(@)]
               /\ hist' = IF invites[i].status = "done" THEN Log("remarked", <<i, p>>) ELSE hist
          ELSE UNCHANGED <<invites, hist>>
    /\ Set(p, [proc[p] EXCEPT !.pc = "e_return"])
    /\ UNCHANGED <<users, households, members, auth, fkOwner, queue>>

(* Return success response *)
EdgeReturn(p) ==
    /\ At(p, "e_return")
    /\ Finish(p, IF proc[p].kind = "oauth" THEN "200" ELSE "201")
    /\ UNCHANGED <<users, invites, households, members, auth, fkOwner, queue, hist>>

(* ---------------------------------------------------------------- *)
(* link_existing_user: "Ako 'yan!"                                   *)
(* ---------------------------------------------------------------- *)

(* consume_invite_token(token): the grant, moved new -> done in one
   conditional update; refused when it is not 'new' any more *)
consumeInviteToken(t) == t \in InvIds /\ invites[t].live /\ invites[t].status = "new"

LinkConsume(p) ==
    /\ At(p, "l_consume")
    /\ LET t == proc[p].token
       IN IF consumeInviteToken(t)
          THEN /\ invites' = [invites EXCEPT ![t].status = "done"]
               /\ Set(p, [proc[p] EXCEPT !.pc = "l_find", !.inv = t,
                                         !.invStatus = "done",
                                         !.invUser = invites[t].user_id,
                                         !.pendId = invites[t].user_id])
          ELSE /\ Finish(p, "400")
               /\ UNCHANGED invites
    /\ UNCHANGED <<users, households, members, auth, fkOwner, queue, hist>>

(* The users rows the link flow accepts as "the existing user" *)
LinkCandidates(p) ==
    LET nE == normalizeEmail(proc[p].email)
        nM == normalizePhone(proc[p].mobile)
    IN IF nE # NULL
       THEN {j \in UIDs : users[j].live /\ users[j].email = nE}
       ELSE {j \in UIDs : users[j].live /\ users[j].mobile = nM}

(* users.select(...).eq('email' | 'mobile_no', ...).maybeSingle() *)
LinkFindUser(p) ==
    /\ At(p, "l_find")
    /\ LET j == MaybeSingle(LinkCandidates(p))
       IN IF j = NULL
          THEN Finish(p, "404")
          ELSE Set(p, [proc[p] EXCEPT !.pc = "l_update", !.rowId = j, !.newId = j])
    /\ UNCHANGED <<users, invites, households, members, auth, fkOwner, queue, hist>>

(* users.update({household, specific_role, nick_name, role}).eq('id', existingUserRow.id) *)
LinkUpdate(p) ==
    /\ At(p, "l_update")
    /\ LET j == proc[p].rowId
           h == invites[proc[p].inv].household
       IN /\ users' = IF users[j].live THEN [users EXCEPT ![j] = BindGrant(@, h)] ELSE users
          /\ hist' = IF users[j].live THEN Log("bound", <<proc[p].inv, j, Via(p)>>) ELSE hist
    /\ Set(p, [proc[p] EXCEPT !.pc = "l_member_check"])
    /\ UNCHANGED <<invites, households, members, auth, fkOwner, queue>>

AfterLinkMember(p) == IF proc[p].pendId # NULL THEN "e_migrate" ELSE "l_return"

LinkMemberCheck(p) ==
    /\ At(p, "l_member_check")
    /\ LET ex == MemberSingle(invites[proc[p].inv].household, proc[p].rowId)
       IN Set(p, [proc[p] EXCEPT !.memExists = ex,
                                 !.pc = IF ex THEN AfterLinkMember(p) ELSE "l_member_insert"])
    /\ hist' = Log("ensured", <<p, invites[proc[p].inv].household, proc[p].rowId, "link">>)
    /\ UNCHANGED <<users, invites, households, members, auth, fkOwner, queue>>

LinkMemberInsert(p) ==
    /\ At(p, "l_member_insert")
    /\ members' = AddMember(members, invites[proc[p].inv].household, proc[p].rowId)
    /\ Set(p, [proc[p] EXCEPT !.pc = AfterLinkMember(p)])
    /\ UNCHANGED <<users, invites, households, auth, fkOwner, queue, hist>>

LinkReturn(p) ==
    /\ At(p, "l_return")
    /\ Finish(p, "201")
    /\ UNCHANGED <<users, invites, households, members, auth, fkOwner, queue, hist>>

(* ================================================================ *)
(* Specifications                                                    *)
(* ================================================================ *)
NoHist == [migrated |-> {}, deleted |-> {}, merged |-> {}, remarked |-> {},
           bound |-> {}, ensured |-> {}, faults |-> {}]

Invite(email, mobile, household, user_id) ==
    [live |-> TRUE, email |-> email, mobile |-> mobile, household |-> household,
     status |-> "new", user_id |-> user_id]

(* The store before the requests: household H1 of the employer a0, who
   added the staff member P1 (e-mail e1, mobile typed as r1) as a
   placeholder; H2 is another household. *)
Households0 ==
    [h \in HIds |->
       IF h = "H1" THEN [live |-> TRUE, owner |-> "a0", join_code |-> "X"]
       ELSE IF h = "H2" THEN [live |-> TRUE, owner |-> NULL, join_code |-> "W"]
       ELSE NoHousehold]

Users0 ==
    [j \in UIDs |->
       IF j = "a0" THEN [UserRow("a0", "e0", "m0", "amo", "H1", FALSE)
                         EXCEPT !.full_name = "An"]
       ELSE IF j = "P1" THEN [UserRow(NULL, "e1", "r1", "kasambahay", "H1", TRUE)
                              EXCEPT !.full_name = "Pn"]
       ELSE NoUser]

Auth0 ==
    [a \in AuthIds |->
       IF a = "a0" THEN [live |-> TRUE, email |-> "e0", phone |-> "m0", role |-> "amo",
                         name |-> "An",
                         committed |-> TRUE]
       ELSE NoAuth]

Members0 ==
    [x \in HIds \X UIDs |-> IF x \in {<<"H1", "a0">>, <<"H1", "P1">>} THEN 1 ELSE 0]

(* i1 invites the contact e2 / m2 into H2; i2 is the invitation of the
   placeholder P1 into H1 and carries its id. *)
InvitesA ==
    [i \in InvIds |-> IF i = "i1" THEN Invite("e2", "m2", "H2", NULL) ELSE NoInvite]

InvitesB ==
    [i \in InvIds |->
       IF i = "i1" THEN Invite("e2", "m2", "H2", NULL)
       ELSE Invite("e1", "r1", "H1", "P1")]

(* Two invitations of the same contact e2 / m2, into H2 and later into H1 *)
InvitesC ==
    [i \in InvIds |->
       IF i = "i1" THEN Invite("e2", "m2", "H2", NULL) ELSE Invite("e2", "m2", "H1", NULL)]

InitWith(inv, qs) ==
    /\ users = Users0
    /\ invites = inv
    /\ households = Households0
    /\ members = Members0
    /\ auth = Auth0
    /\ fkOwner = "P1"
    /\ proc = [p \in Procs |-> Idle]
    /\ queue \in qs
    /\ hist = NoHist

Pw(email, mobile, token) == Request("password", email, mobile, token, NULL)
OAuth(aid, email, mobile, token) == Request("oauth", email, mobile, token, aid)
Link(email, mobile, token) == Request("link", email, mobile, token, NULL)
Idp(email) == Request("idp", email, NULL, NULL, NULL)

Two(q1, q2) == [p \in Procs |-> IF p = "p1" THEN q1 ELSE q2]

(* The request pairs sent against the store with grant i1 alone *)
QueuesA ==
    { Two(<<Pw("e3", NULL, "i1")>>, <<Pw(NULL, "m3", "i1")>>),
      Two(<<Pw("e1", "m3", NULL)>>, <<Pw(NULL, "r1", NULL)>>),
      Two(<<Pw(NULL, "m2", NULL)>>, <<Pw("e2", NULL, NULL)>>),
      Two(<<Pw("e3", NULL, NULL)>>, <<Pw("e4", "m4", NULL)>>),
      Two(<<Pw("e3", "m0", NULL), OAuth("a1", NULL, "m3", NULL)>>,
          <<OAuth("a1", "e4", "m4", NULL)>>),
      Two(<<Idp("e3"), OAuth("a1", NULL, NULL, "i1")>>, <<OAuth("a1", NULL, NULL, "i1")>>),
      Two(<<Link("e0", NULL, "i1")>>, <<Link("e4", NULL, "i1")>>),
      Two(<<Pw("E1", NULL, "i1"), Pw("e1", NULL, NULL)>>, <<>>),
      Two(<<Pw("e3", "m0", "i1")>>, <<>>),
      Two(<<Pw(NULL, "r5", NULL)>>, <<>>),
      Two(<<Pw("E1", NULL, NULL)>>, <<>>),
      Two(<<Bare(Pw("e3", "m3", "i1")), Pw("e3", "m3", "i1")>>,
          <<Pw(NULL, NULL, "i1"), Bare(Link(NULL, "m4", NULL))>>),
      Two(<<Idp("e3"), OAuth("a1", NULL, NULL, "i1"), OAuth("a1", NULL, NULL, "i1")>>,
          <<>>),
      Two(<<Pw("e1", "m2", NULL)>>, <<>>),
      Two(<<Link("e1", NULL, "i1")>>, <<>>) }

(* ... and against the store that also holds P1's invitation i2 *)
QueuesB ==
    { Two(<<Pw("e1", NULL, "i2")>>, <<Pw("e4", "r1", NULL)>>),
      Two(<<Link(NULL, "r1", "i2")>>, <<Link("e0", NULL, "i2")>>),
      Two(<<Idp("e1"), OAuth("a1", NULL, NULL, "i2")>>, <<Pw(NULL, "m2", "i1")>>),
      Two(<<Pw("e3", NULL, "i2"), Pw("e2", "r1", NULL)>>, <<>>),
      Two(<<Idp("e3"), OAuth("a1", NULL, "r1", "i2")>>, <<>>) }

(* ... and against the store with two invitations of one contact *)
QueuesC ==
    { Two(<<Pw(NULL, "m2", NULL)>>, <<>>),
      Two(<<Pw("e2", NULL, NULL)>>, <<>>),
      Two(<<Pw("e0", NULL, "i1")>>, <<>>) }

Init ==
    \/ InitWith(InvitesA, QueuesA)
    \/ InitWith(InvitesB, QueuesB)
    \/ InitWith(InvitesC, QueuesC)

Step(p) ==
    \/ Start(p)
    \/ Trigger(p)
    \/ IdpCreate(p)
    \/ IdpDone(p)
    \/ EdgeValidateToken(p)
    \/ EdgeFallbackMobile(p)
    \/ EdgeFallbackEmail(p)
    \/ EdgeCreateUser(p)
    \/ EdgeFetchExisting(p)
    \/ EdgeProfile(p)
    \/ OAuthGetUser(p)
    \/ OAuthFetchExisting(p)
    \/ OAuthProfile(p)
    \/ EdgeInviteRefetch(p)
    \/ EdgeUserRow(p)
    \/ EdgeUpdateHousehold(p)
    \/ EdgeMemberCheck(p)
    \/ EdgeMemberInsert(p)
    \/ EdgeRefetch(p)
    \/ EdgeMigrate(p)
    \/ EdgeMembersFetch(p)
    \/ EdgeMembersCheck(p)
    \/ EdgeMembersInsert(p)
    \/ EdgeMembersDelete(p)
    \/ EdgeDeletePlaceholder(p)
    \/ EdgeMarkDone(p)
    \/ EdgeReturn(p)
    \/ LinkConsume(p)
    \/ LinkFindUser(p)
    \/ LinkUpdate(p)
    \/ LinkMemberCheck(p)
    \/ LinkMemberInsert(p)
    \/ LinkReturn(p)

Next == \E p \in Procs : Step(p)

Spec == Init /\ [][Next]_vars

(* ---------------------------------------------------------------- *)
(* The membership-ensure step on its own, run repeatedly in sequence   *)
(* ---------------------------------------------------------------- *)
MaxRuns == 2

(* Where each implementation of the step starts and where it ends *)
EnsurePcs == {"t_hh_member_check", "t_invite_member_check", "e_member_check",
              "l_member_check"}

EnsureExits == {"t_invite_select", "t_return", "e_mark_done", "l_return"}

(* A request standing in front of the step for grant i and user u *)
EnsureAt(pc, i, u, n) ==
    [Idle EXCEPT !.pc = pc, !.inv = i, !.tInv = i, !.tHH = InvitesB[i].household,
                 !.aid = u, !.rowId = u, !.runs = n]

InitEnsure ==
    /\ users = Users0
    /\ invites = InvitesB
    /\ households = Households0
    /\ members = Members0
    /\ auth = Auth0
    /\ fkOwner = "P1"
    /\ \E pc \in EnsurePcs, i \in InvIds, u \in {"a0", "P1"} :
          proc = [p \in Procs |-> IF p = "p1" THEN EnsureAt(pc, i, u, 1) ELSE Idle]
    /\ queue = [p \in Procs |-> <<>>]
    /\ hist = NoHist

(* The step is run again with the same household and user *)
EnsureAgain(p) ==
    /\ proc[p].pc \in EnsureExits
    /\ proc[p].runs < MaxRuns
    /\ \E pc \in EnsurePcs :
          Set(p, EnsureAt(pc, proc[p].inv, proc[p].aid, proc[p].runs + 1))
    /\ UNCHANGED <<users, invites, households, members, auth, fkOwner, queue, hist>>

NextEnsure ==
    \E p \in Procs :
        \/ TrgMemberCheck(p)
        \/ TrgMemberInsert(p)
        \/ TrgInviteMemberCheck(p)
        \/ TrgInviteMemberInsert(p)
        \/ EdgeMemberCheck(p)
        \/ EdgeMemberInsert(p)
        \/ LinkMemberCheck(p)
        \/ LinkMemberInsert(p)
        \/ EnsureAgain(p)

SpecEnsure == InitEnsure /\ [][NextEnsure]_vars

(* ---------------------------------------------------------------- *)
(* Secondary steps that fail: the store answers a statement of a       *)
(* secondary step with an error                                        *)
(* ---------------------------------------------------------------- *)

(* An error of a secondary step that ends the request *)
OnSecondaryErrorAbort(p, next) == Finish(p, "500")

(* console.error(...) and go on: the error of a secondary step is logged *)
OnSecondaryError(p, next) == Set(p, [proc[p] EXCEPT !.pc = next])

(* userUpdateHouseholdError: the membership step is skipped *)
EdgeUpdateHouseholdFails(p) ==
    /\ At(p, "e_update_hh")
    /\ OnSecondaryError(p, AfterBinding(p))
    /\ hist' = Log("faults", <<p, "assign">>)
    /\ UNCHANGED <<users, invites, households, members, auth, fkOwner, queue>>

(* insertMemberError *)
EdgeMemberInsertFails(p) ==
    /\ At(p, "e_member_insert")
    /\ OnSecondaryError(p, AfterBinding(p))
    /\ hist' = Log("faults", <<p, "member">>)
    /\ UNCHANGED <<users, invites, households, members, auth, fkOwner, queue>>

(* migrationError: neither the memberships are moved nor the placeholder deleted *)
EdgeMigrateFails(p) ==
    /\ At(p, "e_migrate")
    /\ OnSecondaryError(p, AfterReconcile(p))
    /\ hist' = Log("faults", <<p, "migrate">>)
    /\ UNCHANGED <<users, invites, households, members, auth, fkOwner, queue>>

(* inviteUpdateError: "Don't fail the request - this is just a status update" *)
EdgeMarkDoneFails(p) ==
    /\ At(p, "e_mark_done")
    /\ proc[p].invStatus # "done"
    /\ OnSecondaryError(p, "e_return")
    /\ hist' = Log("faults", <<p, "status">>)
    /\ UNCHANGED <<users, invites, households, members, auth, fkOwner, queue>>

(* A statement of the automatic household creation raises: the block is
   rolled back and its EXCEPTION handler only warns *)
TrgHouseholdFails(p) ==
    /\ proc[p].pc \in {"t_hh_insert", "t_hh_user", "t_hh_member_insert"}
    /\ LET a == proc[p].aid
           h == proc[p].tHH
       IN /\ households' = IF At(p, "t_hh_insert") THEN households
                            ELSE [households EXCEPT ![h] = NoHousehold]
          /\ users' = IF At(p, "t_hh_member_insert") /\ users[a].live
                      THEN [users EXCEPT ![a].household = NULL] ELSE users
    /\ Set(p, [proc[p] EXCEPT !.pc = "t_invite_select", !.tHH = NULL])
    /\ hist' = Log("faults", <<p, "household">>)
    /\ UNCHANGED <<invites, members, auth, fkOwner, queue>>

(* The UPDATE of staff_invite raises: the block's EXCEPTION handler only warns *)
TrgInviteUpdateFails(p) ==
    /\ At(p, "t_invite_update")
    /\ Set(p, [proc[p] EXCEPT !.pc = "t_return"])
    /\ hist' = Log("faults", <<p, "status">>)
    /\ UNCHANGED <<users, invites, households, members, auth, fkOwner, queue>>

(* A statement of the migration block raises (the clearing, the FK
   migration, the delete): the block is rolled back, the handler restores
   the backups and the normal creation flow follows *)
TrgMergeFails(p) ==
    /\ proc[p].pc \in {"t_clear", "t_migrate", "t_delete"}
    /\ LET a == proc[p].aid
       IN /\ users' = TrgRestorePending([users EXCEPT ![a] = NoUser], p)
          /\ fkOwner' = IF At(p, "t_delete") /\ fkOwner = a THEN proc[p].tPend ELSE fkOwner
    /\ Set(p, [proc[p] EXCEPT !.pc = "t_insert", !.tPendFound = FALSE])
    /\ hist' = Log("faults", <<p, "merge">>)
    /\ UNCHANGED <<invites, households, members, auth, queue>>

(* How many statements fail in one run *)
MaxFaults == 1

Fault(p) ==
    /\ Cardinality(hist.faults) < MaxFaults
    /\ \/ EdgeUpdateHouseholdFails(p)
       \/ EdgeMemberInsertFails(p)
       \/ EdgeMigrateFails(p)
       \/ EdgeMarkDoneFails(p)
       \/ TrgHouseholdFails(p)
       \/ TrgInviteUpdateFails(p)
       \/ TrgMergeFails(p)

StepFault(p) == Step(p) \/ Fault(p)

NextFault == \E p \in Procs : StepFault(p)

(* The requests sent while secondary steps may fail *)
FaultQueuesA ==
    { Two(<<Pw(NULL, "r5", NULL)>>, <<>>),
      Two(<<Pw("E1", NULL, NULL)>>, <<>>),
      Two(<<Pw("e3", "m0", "i1")>>, <<>>),
      Two(<<Pw(NULL, "m2", "i1")>>, <<>>),
      Two(<<Idp("e3"), OAuth("a1", NULL, NULL, "i1")>>, <<>>),
      Two(<<Link("e0", NULL, "i1")>>, <<>>),
      Two(<<Pw(NULL, "m2", NULL)>>, <<Pw("e2", NULL, NULL)>>),
      Two(<<Pw("e1", "m0", NULL)>>, <<>>) }

FaultQueuesB ==
    { Two(<<Pw("e3", NULL, "i2")>>, <<>>),
      Two(<<Pw("e1", NULL, "i2")>>, <<Pw("e4", "r1", NULL)>>) }

InitFault == InitWith(InvitesA, FaultQueuesA) \/ InitWith(InvitesB, FaultQueuesB)

(* Every request that was started runs to its response *)
SpecFault == InitFault /\ [][NextFault]_vars /\ \A p \in Procs : WF_vars(StepFault(p))

(* ================================================================ *)
(* The normalizers, character by character                           *)
(* ================================================================ *)
(* A string is a sequence of characters; NoString is null / undefined *)
NoString == <<NULL>>

Digits == {"0", "1", "6", "3", "9"}

IsSpace(c) == c = " "

RECURSIVE TrimStart(_)
TrimStart(s) ==
    IF s # <<>> /\ IsSpace(Head(s)) THEN TrimStart(Tail(s)) ELSE s

RECURSIVE TrimEnd(_)
TrimEnd(s) ==
    IF s # <<>> /\ IsSpace(s[Len(s)]) THEN TrimEnd(SubSeq(s, 1, Len(s) - 1)) ELSE s

(* String.prototype.trim *)
Trim(s) == TrimEnd(TrimStart(s))

(* String.prototype.toLowerCase *)
LowerChar(c) == IF c = "A" THEN "a" ELSE c

ToLowerCase(s) == [k \in 1..Len(s) |-> LowerChar(s[k])]

(* .replace(/[\s-]/g, '') *)
KeepChar(c) == ~IsSpace(c) /\ c # "-"

RemoveSpacesHyphens(s) == SelectSeq(s, KeepChar)

(* v.startsWith('00') *)
StartsWith00(v) == Len(v) >= 2 /\ v[1] = "0" /\ v[2] = "0"

(* /^0\d{10}$/.test(v) *)
IsDomestic(v) == Len(v) = 11 /\ v[1] = "0" /\ \A k \in 1..11 : v[k] \in Digits

(* (value || '').trim().toLowerCase() || null *)
normalizeEmailChars(value) ==
    LET t == ToLowerCase(Trim(IF value = NoString THEN <<>> ELSE value))
    IN IF t = <<>> THEN NoString ELSE t

(* if (!value) return null; trim, strip, 00 -> +, 0 and ten digits -> +63 *)
normalizePhoneChars(value) ==
    IF value = NoString \/ value = <<>> THEN NoString
    ELSE LET v1 == RemoveSpacesHyphens(Trim(value))
             v2 == IF StartsWith00(v1) THEN <<"+">> \o SubSeq(v1, 3, Len(v1)) ELSE v1
         IN IF IsDomestic(v2) THEN <<"+", "6", "3">> \o Tail(v2) ELSE v2

NormFns == {"normalizePhone", "normalizeEmail"}

ApplyNorm(fn, x) ==
    IF fn = "normalizePhone" THEN normalizePhoneChars(x) ELSE normalizeEmailChars(x)

(* The inputs: a prefix, a body and a suffix put together, and null *)
TenDigits == <<"9", "1", "6", "3", "0", "1", "9", "9", "6", "3">>

NormPrefixes ==
    { <<>>, <<" ">>, <<"-">>, <<"0">>, <<"0", "0">>, <<"0", "0", "0">>, <<"+">>,
      <<" ", "0", "0">>, <<"0", "-">> }

NormBodies ==
    { <<>>, <<"9">>, TenDigits, <<"9", " ", "1", "-", "6">>, <<"A", "@", "a">>,
      <<"9", "1", "6", "-", "3", "0", "1", " ", "9", "9", "6", "3">> }

NormSuffixes == { <<>>, <<" ">>, <<"-">>, <<"-", " ">> }

NormInputs ==
    {NoString} \cup {a \o b \o c : a \in NormPrefixes, b \in NormBodies, c \in NormSuffixes}

NormAt(pc, fn, x, y, z) ==
    [Idle EXCEPT !.pc = pc, !.kind = fn, !.arg = x, !.once = y, !.twice = z]

InitNorm ==
    /\ users = Users0
    /\ invites = InvitesA
    /\ households = Households0
    /\ members = Members0
    /\ auth = Auth0
    /\ fkOwner = "P1"
    /\ \E fn \in NormFns, x \in NormInputs :
          proc = [p \in Procs |-> IF p = "p1" THEN NormAt("n_call", fn, x, NULL, NULL)
                                  ELSE Idle]
    /\ queue = [p \in Procs |-> <<>>]
    /\ hist = NoHist

(* The normalizer is applied to the input *)
NormCall(p) ==
    /\ At(p, "n_call")
    /\ Set(p, [proc[p] EXCEPT !.pc = "n_again",
                              !.once = ApplyNorm(proc[p].kind, proc[p].arg)])
    /\ UNCHANGED <<users, invites, households, members, auth, fkOwner, queue, hist>>

(* ... and to its own result *)
NormAgain(p) ==
    /\ At(p, "n_again")
    /\ Set(p, [proc[p] EXCEPT !.pc = "n_done",
                              !.twice = ApplyNorm(proc[p].kind, proc[p].once)])
    /\ UNCHANGED <<users, invites, households, members, auth, fkOwner, queue, hist>>

NextNorm == \E p \in Procs : NormCall(p) \/ NormAgain(p)

SpecNorm == InitNorm /\ [][NextNorm]_vars

(* ================================================================ *)
(* Claims                                                            *)
(* ================================================================ *)
Done(p) == proc[p].pc = "done"

(* The request was answered with success and no warning *)
Succeeded(p) ==
    /\ Done(p)
    /\ proc[p].kind \in {"password", "oauth"}
    /\ proc[p].resp \in {"200", "201"}

(* The users rows of the identity the request signed up *)
RowsOf(p) == RowsByAuthid(users, proc[p].aid)

(* The request's user holds grant i: its household and the staff role *)
HasGrant(p, i) ==
    \E j \in RowsOf(p) :
        users[j].household = invites[i].household /\ users[j].role = "kasambahay"

(* The request validated the token it presented *)
TokenApplied(p) == proc[p].token # NULL /\ proc[p].inv = proc[p].token

(* C1: when two signups present the same valid token, exactly one of them
   ends with the grant's household and the staff role. *)
C1_ExactlyOneTokenWinner ==
    \A i \in InvIds :
        LET S == {p \in Procs : Succeeded(p) /\ proc[p].kind = "password"
                                /\ proc[p].token = i}
        IN S = Procs => Cardinality({p \in S : HasGrant(p, i)}) = 1

(* C2: of the signups that match one PendingUser, at most one completes
   the merge path; a signup that lost the claim does not. *)
C2_ExactlyOneMerge ==
    \A j \in PendIds : Cardinality({a \in AuthIds : <<a, j>> \in hist.merged}) <= 1

(* C3: at most one users row per authid in every state, and exactly one
   once a signup of the identity was answered with success and no warning. *)
C3_OneRowPerIdentity ==
    /\ \A a \in AuthIds : Cardinality(RowsByAuthid(users, a)) <= 1
    /\ \A p \in Procs : Succeeded(p) => Cardinality(RowsOf(p)) = 1

Canonical(j) == users[j].live /\ users[j].authid # NULL /\ ~users[j].pending

(* C4: no two canonical users rows hold the same non-null normalized mobile
   or the same non-null normalized e-mail. *)
C4_UniqueContacts ==
    \A j, k \in UIDs :
        (j # k /\ Canonical(j) /\ Canonical(k)) =>
            /\ users[j].mobile # NULL =>
                   normalizePhone(users[j].mobile) # normalizePhone(users[k].mobile)
            /\ users[j].email # NULL =>
                   normalizeEmail(users[j].email) # normalizeEmail(users[k].email)

(* C4 witness: the store refused a signup's duplicate contact while other
   canonical users exist. *)
C4_Witness ==
    \E p \in Procs : Done(p) /\ proc[p].resp = "201-warning"
                     /\ Cardinality({j \in UIDs : Canonical(j)}) >= 2

(* C5: a grant that is done stays done in every step, and a grant marked
   done again is done afterwards. *)
C5_StatusOnlyForward ==
    [][/\ \A i \in InvIds : invites[i].status = "done" => invites'[i].status = "done"
       /\ \A e \in hist'.remarked : invites'[e[1]].status = "done"]_vars

(* C5 witness: a request marked a done grant as done again and was answered
   with success. *)
C5_Witness ==
    \E e \in hist.remarked : Succeeded(e[2]) /\ invites[e[1]].status = "done"

(* C6: a grant resolved by contact is bound to at most one users row. *)
C6_FallbackSingleUse ==
    \A i \in InvIds :
        Cardinality({j \in UIDs : <<i, j, "contact">> \in hist.bound}) <= 1

(* The pair a request ensures the membership of *)
EnsuredPair(p) == <<proc[p].tHH, proc[p].aid>>

(* C7: after the membership-ensure step has run twice (or more) in sequence
   for one (household, user) pair, exactly one row exists for the pair. *)
C7_EnsureIdempotent ==
    \A p \in Procs :
        (proc[p].runs >= 2 /\ proc[p].pc \in EnsureExits) => members[EnsuredPair(p)] = 1

(* C7 witness: the second run is over for a pair that had no row at first. *)
C7_Witness ==
    \E p \in Procs :
        /\ proc[p].runs = 2
        /\ proc[p].pc \in EnsureExits
        /\ Members0[EnsuredPair(p)] = 0
        /\ members[EnsuredPair(p)] = 1

(* C8: at most one household_members row per (household, user) pair. *)
C8_OneMembershipPerPair == \A x \in DOMAIN members : members[x] <= 1

(* C9: the join codes of the households are pairwise distinct. *)
C9_JoinCodesDistinct ==
    \A g, h \in HIds :
        (g # h /\ households[g].live /\ households[h].live) =>
            households[g].join_code # households[h].join_code

(* C10: at the moment a signup that validated its token is answered with
   success, the identity has a users row, and it carries the staff role and
   the grant's household. *)
C10_TokenBindsGrant ==
    [][\A p \in Procs :
          (~Done(p) /\ (Succeeded(p) /\ TokenApplied(p))') =>
              (/\ RowsOf(p) # {}
               /\ \A j \in RowsOf(p) :
                      /\ users[j].role = "kasambahay"
                      /\ users[j].household = invites[proc[p].inv].household)']_vars

(* The grant's household has a household_members row for a users row of the
   identity the request signed up *)
MemberOfGrant(p) ==
    \E j \in RowsOf(p) : MemberRows(invites[proc[p].inv].household, j) >= 1

(* C11: at the moment a signup that validated its token is answered with
   success, a household_members row (grant's household, new user id)
   exists, also when the grant carries the id of a pending user. *)
C11_TokenMembership ==
    [][\A p \in Procs :
          (~Done(p) /\ (Succeeded(p) /\ TokenApplied(p))') => MemberOfGrant(p)']_vars

(* The request was answered with a success response, with or without the
   "profile setup incomplete" warning *)
AnsweredSuccess(p) == Done(p) /\ proc[p].resp \in {"200", "201", "201-warning"}

(* C12: once a signup to which a grant applied (by token or by contact) is
   answered with success, the grant's status is done. *)
C12_GrantDoneAfterSuccess ==
    \A p \in Procs :
        (AnsweredSuccess(p) /\ proc[p].inv # NULL) => invites[proc[p].inv].status = "done"

(* C13: when a link_existing_user request is answered with not-found, the
   grant of its token is still new. *)
C13_NotFoundKeepsGrant ==
    [][\A p \in Procs :
          (~Done(p) /\ (Done(p) /\ proc[p].kind = "link" /\ proc[p].resp = "404")') =>
              invites'[proc[p].token].status = "new"]_vars

(* The households an identity owns *)
OwnedBy(a) == {h \in HIds : households[h].live /\ households[h].owner = a}

(* What a plain signup with mobile m leaves for identity a: an employer row
   with that mobile, one new household of its own with a join code no other
   household has, the row's household reference and a membership row *)
PlainSignupResult(a, m) ==
    \E j \in RowsByAuthid(users, a) :
        /\ Canonical(j)
        /\ users[j].role = "amo"
        /\ users[j].mobile = m
        /\ Cardinality(OwnedBy(a)) = 1
        /\ \A h \in OwnedBy(a) :
               /\ h \in NewHouseholds
               /\ users[j].household = h
               /\ MemberRows(h, j) >= 1
               /\ \A g \in HIds \ {h} :
                      households[g].live => households[g].join_code # households[h].join_code

(* The request is a password signup with a mobile that no other users row
   holds, to which no grant applied and for which no pending user was merged *)
PlainSignup(p) ==
    /\ proc[p].kind = "password"
    /\ proc[p].mobile # NULL
    /\ proc[p].inv = NULL
    /\ ~\E j \in UIDs : /\ users[j].live
                         /\ users[j].authid # proc[p].aid
                         /\ users[j].mobile # NULL
                         /\ normalizePhone(users[j].mobile) = normalizePhone(proc[p].mobile)
    /\ ~\E e \in hist.migrated : e[1] = proc[p].aid

(* C14: at the moment a plain password signup with a mobile is answered with
   success, the identity has an employer row with the normalized mobile, one
   new household of its own with a fresh join code, and its membership. *)
C14_PlainSignup ==
    [][\A p \in Procs :
          (~Done(p) /\ PlainSignup(p) /\ Succeeded(p)') =>
              \E m \in {normalizePhone(proc[p].mobile)} :
                  PlainSignupResult(proc[p].aid, m)']_vars

(* The request signed up without a mobile, the trigger's lookup matched
   pending user j by e-mail and read a household and a mobile from it, the
   merge of j into the identity completed, and no grant of another household
   applied *)
MergedByEmail(p, j) ==
    /\ proc[p].kind = "password"
    /\ proc[p].mobile = NULL
    /\ proc[p].tPend = j
    /\ proc[p].tEmailBak # NULL
    /\ normalizeEmail(proc[p].email) = normalizeEmail(proc[p].tEmailBak)
    /\ proc[p].tPendHH # NULL
    /\ proc[p].tMobBak # NULL
    /\ <<proc[p].aid, j>> \in hist.merged
    /\ proc[p].inv # NULL => invites[proc[p].inv].household = proc[p].tPendHH

(* What the merge of pending user j, read with household h and normalized
   mobile m, leaves for identity a *)
MergeResult(a, j, h, m) ==
    /\ ~users[j].live
    /\ OwnedBy(a) = {}
    /\ \E k \in RowsByAuthid(users, a) :
           users[k].household = h /\ users[k].mobile = m

(* C15: at the moment a signup without mobile whose e-mail matched a pending
   user, and whose merge completed, is answered with success, the canonical
   row has the pending user's household and normalized mobile, the pending
   row is gone and the identity owns no auto-created household. *)
C15_MergeInherits ==
    [][\A p \in Procs : \A j \in PendIds :
          (~Done(p) /\ MergedByEmail(p, j) /\ Succeeded(p)') =>
              \E h \in {proc[p].tPendHH} : \E m \in {normalizePhone(proc[p].tMobBak)} :
                  MergeResult(proc[p].aid, j, h, m)']_vars

(* C15 witness: a signup with the e-mail of pending user P1 and no mobile
   was answered with success after its merge, and P1's household and
   normalized mobile are on its canonical row. *)
C15_Witness ==
    \E p \in Procs :
        /\ Succeeded(p)
        /\ <<proc[p].aid, "P1">> \in hist.merged
        /\ proc[p].inv = NULL
        /\ MergeResult(proc[p].aid, "P1", Users0["P1"].household,
                       normalizePhone(Users0["P1"].mobile))

(* C16: once the identity of a signup is created the trigger returns to its
   caller and the password signup is answered with success; an OAuth signup
   that reached the invitation post-processing is answered with success;
   and no request that got an identity is answered with an internal error,
   whichever secondary step fails. *)
C16_SecondaryFailuresSwallowed ==
    \A p \in Procs :
        /\ (proc[p].pc = "t_invite") ~> (proc[p].pc \in {"e_fetch_existing", "idp_done"})
        /\ (proc[p].pc = "e_fetch_existing") ~> AnsweredSuccess(p)
        /\ (proc[p].kind = "oauth" /\ proc[p].pc = "e_inv_refetch") ~> AnsweredSuccess(p)
        /\ [](Done(p) => proc[p].resp # "500")

(* C16 witness: a signup one of whose secondary steps failed was answered
   with success. *)
C16_Witness ==
    \E p \in Procs : Succeeded(p) /\ \E e \in hist.faults : e[1] = p

(* Where the trigger stands inside the migration block *)
MergePcs == {"t_clear", "t_merge_insert", "t_migrate", "t_delete"}

(* Request p is the only one whose trigger works on pending user j *)
AloneOn(p, j) == \A q \in Procs \ {p} : proc[q].tPend # j

(* C17: a step in which the migration block fails leaves the pending row,
   when it is still there, with its original e-mail and mobile, and the
   trigger goes on with the normal creation as if no pending user had been
   found; from there the trigger returns to its caller. *)
C17_MergeFailureRestores ==
    /\ [][\A p \in Procs : \A j \in PendIds :
             (/\ proc[p].pc \in MergePcs
              /\ proc[p].tPend = j
              /\ AloneOn(p, j)
              /\ proc'[p].pc = "t_insert") =>
                 /\ ~proc'[p].tPendFound
                 /\ users[j].live =>
                        /\ users'[j].live
                        /\ users'[j].pending
                        /\ users'[j].email = Users0[j].email
                        /\ users'[j].mobile = Users0[j].mobile]_vars
    /\ \A p \in Procs :
           (proc[p].pc = "t_insert" /\ proc[p].tPend # NULL)
               ~> (proc[p].pc \in {"e_fetch_existing", "idp_done"})

(* C17 witness: the migration block of a signup failed, the pending row is
   as it was at the start, and the signup was answered with success. *)
C17_Witness ==
    \E p \in Procs :
        /\ AnsweredSuccess(p)
        /\ <<p, "merge">> \in hist.faults
        /\ users["P1"] = Users0["P1"]

(* The e-mail or the mobile of request p belonged to an authenticated,
   non-pending user before any request arrived *)
HeldByCanonical(p) ==
    \E j \in UIDs :
        /\ Users0[j].live /\ Users0[j].authid # NULL /\ ~Users0[j].pending
        /\ \/ /\ normalizeEmail(proc[p].email) # NULL
              /\ Users0[j].email = normalizeEmail(proc[p].email)
           \/ /\ normalizePhone(proc[p].mobile) # NULL
              /\ Users0[j].mobile = normalizePhone(proc[p].mobile)

(* C18: a password signup without invitation whose e-mail or mobile already
   belongs to an authenticated non-pending user is answered 409 and no auth
   identity is created for it. *)
C18_DuplicateRejected ==
    [][\A p \in Procs :
         (/\ ~Done(p) /\ Done(p)'
          /\ proc[p].kind = "password"
          /\ proc[p].token = NULL /\ proc[p].inv = NULL
          /\ HeldByCanonical(p)) =>
             (proc'[p].resp = "409" /\ proc'[p].aid = NULL)]_vars

Store == <<users, invites, households, members, auth, fkOwner>>

(* C19: a request of the password flow that lacks the password or the
   display name, or has neither mobile nor e-mail, is answered 400 in the
   step that reads it, and that step writes nothing: identities, users rows,
   households, memberships and invitations stay as they were. *)
C19_MissingFieldsRejected ==
    [][\A p \in Procs :
         (/\ queue[p] # <<>>
          /\ queue'[p] = Tail(queue[p])
          /\ \E r \in {Head(queue[p])} :
                /\ r.kind \in {"password", "link"}
                /\ ~IsLinkRequest(r)
                /\ \/ ~r.creds
                   \/ (r.mobile = NULL /\ r.email = NULL)) =>
             /\ Done(p)'
             /\ proc'[p].resp = "400"
             /\ proc'[p].aid = NULL
             /\ UNCHANGED Store]_vars

(* C19 witness: both requests without the required fields were refused and
   the store is as it was at the start. *)
C19_Witness ==
    /\ \A p \in Procs : Done(p) /\ proc[p].resp = "400"
    /\ queue["p1"] = <<Pw("e3", "m3", "i1")>>
    /\ users = Users0 /\ auth = Auth0 /\ invites = InvitesA

(* C20: while a request that repeats the one its caller has just been
   answered with success is handled, no step of it changes the role or the
   household reference of a users row, a membership, or the status of an
   invitation. *)
C20_Idempotent ==
    [][\A p \in Procs :
         (proc[p].again /\ proc'[p] # proc[p]) =>
             /\ \A j \in UIDs :
                   users[j].live =>
                       /\ users'[j].live
                       /\ users'[j].role = users[j].role
                       /\ users'[j].household = users[j].household
             /\ members' = members
             /\ \A i \in InvIds : invites'[i].status = invites[i].status]_vars

(* C21: normalizePhone and normalizeEmail applied to their own result give
   that result again, for every input string and for null. *)
C21_NormalizersIdempotent ==
    \A p \in Procs :
        At(p, "n_done") => proc[p].twice = proc[p].once

(* The rule of the specification for a mobile number *)
RefNormalizeMobile(x) ==
    IF x = NoString THEN NoString
    ELSE LET v1 == RemoveSpacesHyphens(Trim(x))
             v2 == IF StartsWith00(v1) THEN <<"+">> \o SubSeq(v1, 3, Len(v1)) ELSE v1
             v3 == IF IsDomestic(v2) THEN <<"+", "6", "3">> \o SubSeq(v2, 2, 11) ELSE v2
         IN IF v1 = <<>> THEN NoString ELSE v3

(* C22: normalizePhone gives what the reference rule gives: spaces and
   hyphens removed, a leading 00 turned into +, 0 and ten digits turned into
   +63 and the ten digits, and null for an input that is absent, empty, or
   empty once stripped. *)
C22_NormalizePhoneReference ==
    \A p \in Procs :
        (proc[p].pc \in {"n_again", "n_done"} /\ proc[p].kind = "normalizePhone") =>
            proc[p].once = RefNormalizeMobile(proc[p].arg)

(* C23: a users row that a step removes is a pending row without identity
   (is_pending_signup true, authid null); no step removes a row bound to an
   identity. *)
C23_OnlyPendingDeleted ==
    [][\A j \in UIDs :
         (users[j].live /\ ~users'[j].live) =>
             (users[j].pending /\ users[j].authid = NULL)]_vars

(* The users row that replaces a placeholder: the one a delete was made for,
   named by its id or by its identity *)
ReplacementOf(e) ==
    {j \in UIDs : Canonical(j) /\ (j = e[1] \/ users[j].authid = e[1])}

(* C24: whenever a pending row has been deleted by a signup and is gone, the
   canonical row of the identity that claimed it exists. *)
C24_ReplacementBeforeDelete ==
    \A e \in hist.deleted :
        (e[2] \in PendIds /\ ~users[e[2]].live) => ReplacementOf(e) # {}

(* C25: a step that inserts a household row does so for a user whose role is
   amo and whose household reference is null, in a signup for which the
   trigger found no invitation. *)
C25_AutoHouseholdGuard ==
    [][\A h \in HIds :
         (~households[h].live /\ households'[h].live) =>
             \E p \in Procs :
                 /\ At(p, "t_hh_insert")
                 /\ households'[h].owner = proc[p].aid
                 /\ users[proc[p].aid].live
                 /\ users[proc[p].aid].role = "amo"
                 /\ users[proc[p].aid].household = NULL
                 /\ ~proc[p].tInvFound]_vars

(* C25 witness: a household was created for an amo user and is that user's
   household, while a kasambahay user was signed up and owns none. *)
C25_Witness ==
    /\ \E h \in NewHouseholds :
          /\ households[h].live
          /\ users[households[h].owner].live
          /\ users[households[h].owner].role = "amo"
          /\ users[households[h].owner].household = h
    /\ \E j \in AuthIds \ {"a0"} :
          /\ users[j].live /\ users[j].role = "kasambahay"
          /\ \A h \in HIds : households[h].live => households[h].owner # j

(* C26: one join-code generation draws at most 10 codes: the number of
   colliding draws it has made never exceeds 10. *)
C26_BoundedCodeRetry ==
    \A p \in Procs : proc[p].tTries <= 10

(* C27: a step that assigns a household or inserts a membership from an
   invitation does so from one whose status was new when the signup looked
   it up, in the trigger as in the edge function. *)
C27_OnlyNewGrantApplied ==
    [][\A p \in Procs :
         (proc'[p].pc # proc[p].pc /\ (users' # users \/ members' # members)) =>
             /\ proc[p].pc \in {"t_invite_hh", "t_invite_member_insert"} =>
                    proc[p].tInvStatus = "new"
             /\ proc[p].pc \in {"e_update_hh", "e_member_insert"} =>
                    proc[p].invStatus = "new"]_vars

(* C28: the users row the link flow updates is a canonical one (identity
   bound, not pending); a contact that matches a pending row alone is
   answered 404 and no users row is changed. *)
C28_LinkOnlyCanonical ==
    [][\A p \in Procs :
         /\ (At(p, "l_update") /\ users' # users) => Canonical(proc[p].rowId)
         /\ (At(p, "l_find") /\ proc'[p].pc # "l_find"
               /\ \A j \in LinkCandidates(p) : ~Canonical(j)) =>
                  (Done(p)' /\ proc'[p].resp = "404")]_vars

(* The name the signup supplied: the request's, or for an OAuth signup
   without one, the name the identity provider gave *)
SuppliedName(p) ==
    IF proc[p].kind = "oauth" /\ proc[p].name = NULL /\ proc[p].aid # NULL
    THEN auth[proc[p].aid].name ELSE proc[p].name

(* C29: when a signup that merged a pending user has been carried out, by
   the edge function or by the identity provider's insert alone, and it
   supplied a name, the full name of its canonical row is the supplied one,
   not the pending user's. *)
C29_SuppliedNameWins ==
    \A p \in Procs :
        (/\ Done(p)
         /\ proc[p].resp \in {"200", "201", "idp"}
         /\ SuppliedName(p) # NULL
         /\ \E e \in hist.merged : e[1] = proc[p].aid) =>
            \A j \in RowsByAuthid(users, proc[p].aid) :
                users[j].full_name = SuppliedName(p)

(* C30: the row a signup takes as the pending user to merge is a pending row
   without identity: in the trigger it is one of the rows matching the
   e-mail when there is one and one matching the mobile otherwise, and the
   row the edge function hands to the migration is pending as well. *)
C30_MergeSourceIsPending ==
    [][\A p \in Procs :
         /\ (At(p, "t_pending") /\ proc'[p].tPend # NULL) =>
               \E em \in {normalizeEmail(auth[proc[p].aid].email)},
                  ph \in {normalizePhone(auth[proc[p].aid].phone)} :
                   /\ TrgDeleteGuard(users[proc'[p].tPend])
                   /\ IF em # NULL /\ TrgPendingByEmail(em) # {}
                      THEN proc'[p].tPend \in TrgPendingByEmail(em)
                      ELSE ph # NULL /\ proc'[p].tPend \in TrgPendingByPhone(ph)
         /\ (At(p, "e_migrate") /\ proc'[p].pc # "e_migrate"
               /\ proc[p].pendId # NULL /\ users[proc[p].pendId].live) =>
                   TrgDeleteGuard(users[proc[p].pendId])]_vars

(* C31: without a valid token the edge function resolves the invitation by
   mobile first and by e-mail only when no mobile matches, among the new
   ones; whenever new invitations match the contact it takes the newest of
   them and the signup gets the role kasambahay. *)
C31_FallbackNewest ==
    [][\A p \in Procs :
         /\ (At(p, "e_fb_mobile") /\ proc'[p].pc # "e_fb_mobile"
               /\ EdgeInvitesByMobile(p) # {}) =>
                  /\ proc'[p].inv = Newest(EdgeInvitesByMobile(p))
                  /\ proc'[p].userRole = "kasambahay"
         /\ (At(p, "e_fb_email") /\ proc'[p].pc # "e_fb_email"
               /\ EdgeInvitesByEmail(p) # {}) =>
                  /\ proc'[p].inv = Newest(EdgeInvitesByEmail(p))
                  /\ proc'[p].userRole = "kasambahay"]_vars

(* C32: once reconciliation has deleted a pending user's row, no
   household_members row carries the deleted id, and every household it was
   a member of has as a member the user its references were migrated to. *)
MergedInto(j) == {m[1] : m \in {x \in hist.migrated : x[2] = j}}

C32_MembershipsFollowMerge ==
    \A d \in hist.deleted :
       d[2] \in PendIds =>
          \A h \in HIds :
             /\ MemberRows(h, d[2]) = 0
             /\ Members0[<<h, d[2]>>] > 0 =>
                   \E u \in MergedInto(d[2]) : MemberRows(h, u) > 0

(* C33: a password or OAuth request that ends in an error before the
   canonical user exists (createUser refused, invalid session, missing
   contact, profile not written) has only validated its token: every step on
   the way to such an answer leaves the invitations as they are, so the
   request leaves the status of its invitation new. *)
ErrorPathPcs ==
    {"e_validate", "e_fb_mobile", "e_fb_email", "e_create_user",
     "o_get_user", "o_fetch_existing", "o_profile"}

SignupErrors == {"400", "401", "409"}

C33_ErrorLeavesGrantNew ==
    [][\A p \in Procs :
         (proc'[p] # proc[p] /\ proc'[p].kind \in {"password", "oauth"}) =>
            /\ proc[p].pc \in ErrorPathPcs => invites' = invites
            /\ proc'[p].pc \in ErrorPathPcs =>
                  proc[p].pc \in ErrorPathPcs \cup {"idle", "done"}
            /\ (proc'[p].pc = "done" /\ proc'[p].resp \in SignupErrors) =>
                  proc[p].pc \in ErrorPathPcs \cup {"idle", "done"}]_vars

C33_Witness ==
    \E p \in Procs :
       /\ Done(p) /\ proc[p].kind = "password" /\ proc[p].resp = "409"
       /\ proc[p].token \in InvIds /\ proc[p].inv = proc[p].token
       /\ invites[proc[p].token].status = "new"

(* C34: the household_members rows of a canonical user are only ever added
   to: no step removes or re-points a row whose user is a live row bound to
   an identity. *)
C34_CanonicalMembershipsAdditive ==
    [][\A h \in HIds : \A u \in DOMAIN users :
         Canonical(u) => MemberRows(h, u)' >= MemberRows(h, u)]_vars

(* C35: the merge clears the pending row's mobile, and replaces its e-mail
   when it is the incoming one, before the canonical row is written; so in
   no state do a pending row and a canonical row hold the same mobile number
   or the same e-mail address.  Stated for runs in which one request after
   the other is served. *)
IsPendingRow(j) == users[j].live /\ users[j].pending /\ users[j].authid = NULL

OneAtATime == \E q \in Procs : proc[q].pc = "idle" /\ queue[q] = <<>>

C35_NoSharedContact ==
    /\ \A p \in Procs :
          (At(p, "t_merge_insert") /\ AloneOn(p, proc[p].tPend)
             /\ IsPendingRow(proc[p].tPend)) =>
             /\ users[proc[p].tPend].mobile = NULL
             /\ \/ users[proc[p].tPend].email = NULL
                \/ normalizeEmail(users[proc[p].tPend].email)
                      # normalizeEmail(auth[proc[p].aid].email)
    /\ OneAtATime =>
          \A j \in UIDs : \A k \in UIDs :
             (IsPendingRow(j) /\ Canonical(k)) =>
                /\ users[j].mobile # NULL =>
                     normalizePhone(users[j].mobile) # normalizePhone(users[k].mobile)
                /\ users[j].email # NULL =>
                     normalizeEmail(users[j].email) # normalizeEmail(users[k].email)

(* C36: a grant is done only when it has been bound: whenever no request is
   under way, every invitation whose status a signup has set to done has a
   canonical user with the role kasambahay whose household reference is the
   invitation's household. *)
Quiet == \A p \in Procs : proc[p].pc \in {"idle", "done"}

C36_DoneMeansBound ==
    Quiet =>
       \A i \in InvIds :
          (invites[i].live /\ invites[i].status = "done") =>
             \E k \in UIDs :
                /\ Canonical(k)
                /\ users[k].role = "kasambahay"
                /\ users[k].household = invites[i].household

(* C37: whenever no request is under way, a canonical user with the role
   kasambahay owns no automatically created household and is a member of no
   household other than the one its household reference names. *)
C37_StaffHoldsOneHousehold ==
    Quiet =>
       \A k \in UIDs :
          (Canonical(k) /\ users[k].role = "kasambahay") =>
             /\ \A h \in NewHouseholds :
                   ~(households[h].live /\ households[h].owner = users[k].authid)
             /\ \A h \in HIds :
                   MemberRows(h, k) > 0 => h = users[k].household
====
